---- MODULE Spec2Model ----
(***************************************************************************)
(* Model of the GLAO closed-loop simulation of src/src/main.rs.            *)
(*                                                                         *)
(*  - The Reconstructor client (new / read / update / write) is modelled   *)
(*    from its source, with integer entries standing for the f64 entries   *)
(*    (sums and products of small integers are exact in f64).              *)
(*  - The wiring of the two models built in main is modelled from main.    *)
(*  - The order in which main checks, runs and waits for the two models,   *)
(*    and the computation, saving and loading of the pseudo-inverse of     *)
(*    the poke matrix, are modelled from main.                             *)
(***************************************************************************)
EXTENDS Integers, Sequences, FiniteSets, TLC

VARIABLES
    \* ---- Reconstructor (struct fields, src/src/main.rs 23-28)
    mat,      \* Vec<DMatrix<f64>>: sequence of [nrows, ncols, data (column-major)]
    u,        \* Vec<f64>: pending sensor vector
    y,        \* DVector<f64>: command vector
    n_y,      \* number of operator rows
    \* ---- observation of the Reconstructor's life
    rst,      \* "ok" | "new_panic" | "update_panic" | "write_panic"
    out,      \* payload returned by the last write()
    uIn,      \* the vector handed to the last read()
    hist,     \* the operations applied so far, oldest first
    \* ---- a Model (graph of actors) and its run
    G,        \* the graph handed to Model::new: actors, rates, channels, ticks
    phase,    \* "off" | "built" | "failed" | "ready" | "running" | "done"
    now,      \* the tick being processed
    rdone,    \* actors whose read/update step of tick `now` is over
    wdone,    \* actors whose write step of tick `now` is over
    slot,     \* per channel: the payload last written
    got,      \* per channel: the payload last read by the consumer
    upd,      \* per actor: number of updates made
    rd,       \* per actor: ticks on which it was invoked to read
    wr,       \* per actor: ticks on which it was invoked to write
    seen,     \* per actor: the Tick values received, in order
    term,     \* actors that have terminated
    \* ---- Integrator::new(n_mode).gain(0.5)
    iy,       \* accumulated command, in units of 1/GainDen
    idelta,   \* the increment last read
    iapplied, \* the increments integrated so far, oldest first
    \* ---- main: the two models it builds, checks, runs and waits for
    mpc,      \* the statement main is at
    m1,       \* the glao model: "built" | "running" | "ok" | "err" | "dropped"
    m2,       \* the glao-images model: "none" | "built" | "ready" | "running" | ...
    acts1,    \* steps made by the actors of glao
    acts2,    \* steps made by the actors of glao-images
    \* ---- main: the pseudo-inverse of the poke matrix, computed or loaded
    nvl,      \* n_valid_lenslet: valid lenslets per sensor
    ci,       \* i: the row offset of the sensor being processed
    crows,    \* per sensor processed: the rows of poke_mat selected, 0-based
    pinv,     \* pinv_poke_mat as computed
    cfile,    \* the content of the cache file, a sequence of words
    loaded,   \* pinv_poke_mat as a later run loads it
    cpc       \* "off" | "calibrating" | "saved" | "loaded" | "panic"

recVars == <<mat, u, y, n_y, rst, out, uIn, hist>>
engVars == <<G, phase, now, rdone, wdone, slot, got, upd, rd, wr, seen, term>>
intVars == <<iy, idelta, iapplied>>
mainVars == <<mpc, m1, m2, acts1, acts2>>
calVars == <<nvl, ci, crows, pinv, cfile, loaded, cpc>>
vars == <<mat, u, y, n_y, rst, out, uIn, hist,
          G, phase, now, rdone, wdone, slot, got, upd, rd, wr, seen, term,
          iy, idelta, iapplied,
          mpc, m1, m2, acts1, acts2,
          nvl, ci, crows, pinv, cfile, loaded, cpc>>

-----------------------------------------------------------------------------
(* Bounds of the model *)
MaxK == 2        \* at most MaxK sub-matrices in the operator
MaxCols == 4     \* at most MaxCols columns per sub-matrix
MaxOps == 4      \* at most MaxOps read/update/write calls on one Reconstructor

(* Program constants *)
NSeg == 7        \* the 7 of chunks(self.n_y / 7)

Seeds == {0, 1}
Rows == {1, 2, NSeg, NSeg + 1, 2 * NSeg}

-----------------------------------------------------------------------------
(* Dense linear algebra as nalgebra computes it *)

Min(a, b) == IF a < b THEN a ELSE b

\* DMatrix entry (i, j), 1-based, of a column-major matrix
Entry(m, i, j) == m.data[(j - 1) * m.nrows + i]

RECURSIVE DotRow(_, _, _, _)
DotRow(m, i, v, j) ==
    IF j = 0 THEN 0 ELSE DotRow(m, i, v, j - 1) + Entry(m, i, j) * v[j]

\* the product with the last column of m left out
MatVecShort(m, v) == [i \in 1..m.nrows |-> DotRow(m, i, v, m.ncols - 1)]

\* mat * DVector::from_column_slice(v); defined when Len(v) = m.ncols
MatVec(m, v) == [i \in 1..m.nrows |-> DotRow(m, i, v, m.ncols)]

\* y += w
VecAdd(a, b) == [i \in 1..Len(a) |-> a[i] + b[i]]

\* DVector::zeros(n)
Zeros(n) == [i \in 1..n |-> 0]

-----------------------------------------------------------------------------
(* Inputs of the model: operators and sensor vectors *)

MatGen(r, c, s) ==
    [nrows |-> r, ncols |-> c,
     data |-> [k \in 1..(r * c) |-> ((s + 2 * k + (k \div 3)) % 4) - 1]]

InputGen(len, s) == [i \in 1..len |-> ((i * (s + 2) + s) % 5) + 1]

\* lists of sub-matrices with a common row count
GoodLists ==
    UNION { { [k \in 1..K |-> MatGen(r, cs[k], s + k)] :
                r \in Rows, cs \in [1..K -> 1..MaxCols], s \in Seeds } :
            K \in 1..MaxK }

\* lists Reconstructor::new rejects: no matrix, or row counts that differ
BadLists ==
    { <<>> } \cup { <<MatGen(r, 2, s), MatGen(r + 1, 2, s)>> : r \in {1, NSeg}, s \in Seeds }

RECURSIVE SumCols(_, _)
SumCols(ms, k) == IF k = 0 THEN 0 ELSE SumCols(ms, k - 1) + ms[k].ncols

TotalCols(ms) == SumCols(ms, Len(ms))

\* sensor vectors offered to read(): of the operator's length, shorter, longer
InputLens(ms) ==
    { n \in { TotalCols(ms) - 1, TotalCols(ms), TotalCols(ms) + 2 } : n >= 0 }

-----------------------------------------------------------------------------
(* Reconstructor::new *)

\* mat[0].nrows() indexes the first matrix; assert_eq!(n_y, mat.nrows()) for each
NewOk(ms) == Len(ms) >= 1 /\ \A k \in 1..Len(ms) : ms[k].nrows = ms[1].nrows

-----------------------------------------------------------------------------
(* Update for Reconstructor: the fold over self.mat *)

Panicked(uu, yy) == [ok |-> FALSE, u |-> uu, y |-> yy]

\* n_u left as it was
NextNuKeep(n, nv) == n

\* n_u after the decrement that follows the first drain
NextNu(n, nv) == n - nv

\* (s_xy, remaining u, n_u) of one sub-matrix with nv = ncols / 2, or a panic:
\*   self.u.drain(..nv) panics when nv exceeds the length;
\*   n_u -= nv underflows (a panic with overflow checks; without them the
\*   wrapped start exceeds the wrapped end and drain panics);
\*   self.u.drain(n_u..n_u + nv) panics when the range leaves the vector.
Extract(uu, n, nv) ==
    IF nv > Len(uu) THEN [ok |-> FALSE, u |-> uu]
    ELSE LET s_x == SubSeq(uu, 1, nv)
             u1 == SubSeq(uu, nv + 1, Len(uu))
         IN  IF n < nv THEN [ok |-> FALSE, u |-> u1]
             ELSE LET n1 == NextNu(n, nv)
                  IN  IF n1 + nv > Len(u1) THEN [ok |-> FALSE, u |-> u1]
                      ELSE [ok |-> TRUE,
                            s_xy |-> s_x \o SubSeq(u1, n1 + 1, n1 + nv),
                            u |-> SubSeq(u1, 1, n1) \o SubSeq(u1, n1 + nv + 1, Len(u1)),
                            n_u |-> n1]

RECURSIVE UpdateFold(_, _, _, _, _)
UpdateFold(ms, k, uu, n, acc) ==
    IF k > Len(ms) THEN [ok |-> TRUE, u |-> uu, y |-> acc]
    ELSE LET m == ms[k]
             e == Extract(uu, n, m.ncols \div 2)
         IN  IF ~e.ok THEN Panicked(e.u, acc)
             \* mat * vector panics on a dimension mismatch (odd ncols)
             ELSE IF Len(e.s_xy) # m.ncols THEN Panicked(e.u, acc)
             ELSE UpdateFold(ms, k + 1, e.u, e.n_u, VecAdd(acc, MatVec(m, e.s_xy)))

\* update(): n_u = self.u.len() / 2, fold from DVector::zeros(self.n_y)
UpdateResult(ms, uu, ny) == UpdateFold(ms, 1, uu, Len(uu) \div 2, Zeros(ny))

-----------------------------------------------------------------------------
(* Write<M2modesRec> for Reconstructor *)

RECURSIVE Chunks(_, _)
\* slice.chunks(n), n > 0: consecutive blocks of n elements, the last one shorter
Chunks(s, n) ==
    IF Len(s) = 0 THEN <<>>
    ELSE <<SubSeq(s, 1, Min(n, Len(s)))>> \o Chunks(SubSeq(s, Min(n, Len(s)) + 1, Len(s)), n)

RECURSIVE FlatZeroAfter(_, _)
\* the zero pushed after the coefficients of the block
FlatZeroAfter(cs, k) ==
    IF k > Len(cs) THEN <<>> ELSE (cs[k] \o <<0>>) \o FlatZeroAfter(cs, k + 1)

RECURSIVE FlatZero(_, _)
\* flat_map(|y| { let mut a = vec![0f64]; a.extend_from_slice(y); a })
FlatZero(cs, k) == IF k > Len(cs) THEN <<>> ELSE (<<0>> \o cs[k]) \o FlatZero(cs, k + 1)

ChunkSize(ny) == ny \div NSeg

\* chunks(0) panics
WriteOk(ny) == ChunkSize(ny) > 0

WriteOut(yy, ny) == FlatZero(Chunks(yy, ChunkSize(ny)), 1)

-----------------------------------------------------------------------------
(* The Reconstructor as a state machine *)

\* no Model is built
EngOff ==
    /\ G = [name |-> "none"]
    /\ phase = "off"
    /\ now = 0
    /\ rdone = {} /\ wdone = {} /\ term = {}
    /\ slot = <<>> /\ got = <<>> /\ upd = <<>>
    /\ rd = <<>> /\ wr = <<>> /\ seen = <<>>

\* no Integrator is under test
IntOff == iy = <<>> /\ idelta = <<>> /\ iapplied = <<>>

\* main is not under test
MainOff == mpc = "off" /\ m1 = "off" /\ m2 = "off" /\ acts1 = 0 /\ acts2 = 0

\* no calibration is under test
CalOff ==
    /\ nvl = <<>> /\ ci = 0 /\ crows = <<>> /\ pinv = <<>>
    /\ cfile = <<>> /\ loaded = <<>> /\ cpc = "off"

InitRec ==
    /\ EngOff
    /\ IntOff
    /\ MainOff
    /\ CalOff
    /\ mat \in GoodLists \cup BadLists
    /\ u = <<>>
    /\ n_y = IF NewOk(mat) THEN mat[1].nrows ELSE 0
    /\ y = Zeros(n_y)
    /\ rst = IF NewOk(mat) THEN "ok" ELSE "new_panic"
    /\ out = <<>>
    /\ uIn = <<>>
    /\ hist = <<>>

\* a Reconstructor called directly, outside any model
RecLive == phase = "off" /\ rst = "ok" /\ Len(hist) < MaxOps

\* read(data): self.u = data.to_vec()
RecRead ==
    /\ RecLive
    /\ \E len \in InputLens(mat), s \in Seeds :
          /\ u' = InputGen(len, s)
          /\ uIn' = InputGen(len, s)
    /\ hist' = Append(hist, "read")
    /\ UNCHANGED <<mat, y, n_y, rst, out>>
    /\ UNCHANGED <<engVars, intVars, mainVars, calVars>>

\* update()
RecUpdate ==
    /\ RecLive
    /\ LET r == UpdateResult(mat, u, n_y)
       IN  /\ u' = r.u
           /\ y' = IF r.ok THEN r.y ELSE y
           /\ rst' = IF r.ok THEN "ok" ELSE "update_panic"
    /\ hist' = Append(hist, "update")
    /\ UNCHANGED <<mat, n_y, out, uIn>>
    /\ UNCHANGED <<engVars, intVars, mainVars, calVars>>

\* write()
RecWrite ==
    /\ RecLive
    /\ IF WriteOk(n_y)
       THEN out' = WriteOut(y, n_y) /\ rst' = "ok"
       ELSE out' = out /\ rst' = "write_panic"
    /\ hist' = Append(hist, "write")
    /\ UNCHANGED <<mat, u, y, n_y, uIn>>
    /\ UNCHANGED <<engVars, intVars, mainVars, calVars>>

NextRec == RecRead \/ RecUpdate \/ RecWrite

SpecRec == InitRec /\ [][NextRec]_vars

-----------------------------------------------------------------------------
(* The graphs of main: actors, rates <<NI, NO>> (0: no input / no output),   *)
(* channels, and the number of ticks of the timer                            *)

AO_RATE == 10    \* const AO_RATE: usize = 10
NStep == 11      \* bound on the timer's n_step
MaxRate == 3     \* bound on the rates of the single-actor rate scenario

Ch(f, t, uid, b) == [from |-> f, to |-> t, uid |-> uid, boot |-> b]

\* every input made by into_input / log is an input of its consumer
InputsOf(edges) == { [to |-> e.to, uid |-> e.uid] : e \in edges }

GlaoActors ==
    { "timer", "on_axis", "ao_actor", "reconstructor", "integrator",
      "logs", "wavefront_logs", "gmt", "science" }

\* the rate parameters of ao_actor and integrator exchanged
GlaoRateSwapped ==
    [a \in GlaoActors |->
        CASE a = "timer" -> <<0, 1>>
          [] a = "ao_actor" -> <<AO_RATE, 1>>
          [] a = "reconstructor" -> <<AO_RATE, AO_RATE>>
          [] a = "integrator" -> <<1, AO_RATE>>
          [] a \in {"logs", "wavefront_logs"} -> <<1, 0>>
          [] OTHER -> <<1, 1>>]

\* Initiator, Actor<_>, Actor<_, 1, AO_RATE>, Actor<_, AO_RATE, AO_RATE>,
\* Actor<_, AO_RATE, 1>, Terminator
GlaoRate ==
    [a \in GlaoActors |->
        CASE a = "timer" -> <<0, 1>>
          [] a = "ao_actor" -> <<1, AO_RATE>>
          [] a = "reconstructor" -> <<AO_RATE, AO_RATE>>
          [] a = "integrator" -> <<AO_RATE, 1>>
          [] a \in {"logs", "wavefront_logs"} -> <<1, 0>>
          [] OTHER -> <<1, 1>>]

\* the tick wired to on_axis alone
GlaoTimerEdgesOne == { Ch("timer", "on_axis", "Tick", FALSE) }

\* timer.add_output().multiplex(2).build::<Tick>()
GlaoTimerEdges ==
    { Ch("timer", "on_axis", "Tick", FALSE), Ch("timer", "ao_actor", "Tick", FALSE) }

\* the residual rms output of science declared with the type of on_axis' output
GlaoLogEdgesDup ==
    { Ch("on_axis", "logs", "WfeRms", FALSE),
      Ch("on_axis", "logs", "SegmentWfeRms", FALSE),
      Ch("on_axis", "logs", "SegmentPiston", FALSE),
      Ch("science", "logs", "WfeRms", FALSE),
      Ch("science", "logs", "SegmentResidualWfeRms", FALSE),
      Ch("science", "logs", "SegmentResidualPiston", FALSE),
      Ch("on_axis", "wavefront_logs", "Wavefront", FALSE),
      Ch("gmt", "wavefront_logs", "ReconWavefront", FALSE),
      Ch("science", "wavefront_logs", "ResidualWavefront", FALSE) }

\* on_axis, science and gmt outputs logged by logs and wavefront_logs
GlaoLogEdges ==
    { Ch("on_axis", "logs", "WfeRms", FALSE),
      Ch("on_axis", "logs", "SegmentWfeRms", FALSE),
      Ch("on_axis", "logs", "SegmentPiston", FALSE),
      Ch("science", "logs", "ResidualWfeRms", FALSE),
      Ch("science", "logs", "SegmentResidualWfeRms", FALSE),
      Ch("science", "logs", "SegmentResidualPiston", FALSE),
      Ch("on_axis", "wavefront_logs", "Wavefront", FALSE),
      Ch("gmt", "wavefront_logs", "ReconWavefront", FALSE),
      Ch("science", "wavefront_logs", "ResidualWavefront", FALSE) }

\* the integrator output built without .bootstrap()
NoBootstrap == FALSE

\* integrator.add_output().bootstrap()
IntegratorBootstrap == TRUE

GlaoLoopEdges ==
    { Ch("ao_actor", "reconstructor", "SensorData", FALSE),
      Ch("reconstructor", "integrator", "M2modesRec", FALSE),
      Ch("integrator", "ao_actor", "M2modes", IntegratorBootstrap),
      Ch("integrator", "gmt", "M2modes", IntegratorBootstrap),
      Ch("integrator", "science", "M2modes", IntegratorBootstrap) }

GlaoEdges == GlaoTimerEdges \cup GlaoLogEdges \cup GlaoLoopEdges

Glao(n) ==
    [name |-> "glao", actors |-> GlaoActors, rate |-> GlaoRate,
     edges |-> GlaoEdges, inputs |-> InputsOf(GlaoEdges), nstep |-> n]

ImagesActors == { "timer", "on_axis", "science", "logs" }

ImagesEdges ==
    { Ch("timer", "on_axis", "Tick", FALSE),
      Ch("timer", "science", "Tick", FALSE),
      Ch("on_axis", "logs", "NaturalSeeingImage", TRUE),
      Ch("on_axis", "logs", "NaturalSeeingPSSnFwhm", TRUE),
      Ch("science", "logs", "DiffractionLimitedImage", TRUE),
      Ch("science", "logs", "GlaoPSSnFwhm", TRUE) }

\* Timer::new(0)
Images ==
    [name |-> "glao-images", actors |-> ImagesActors,
     rate |-> [a \in ImagesActors |->
                 CASE a = "timer" -> <<0, 1>> [] a = "logs" -> <<1, 0>> [] OTHER -> <<1, 1>>],
     edges |-> ImagesEdges, inputs |-> InputsOf(ImagesEdges), nstep |-> 0]

-----------------------------------------------------------------------------
(* Other graphs handed to check() and run() *)

\* the closed loop of main with the bootstrap of the integrator output removed
GlaoNoBoot ==
    LET edges == { Ch(e.from, e.to, e.uid, FALSE) : e \in GlaoEdges }
    IN  [name |-> "glao-no-bootstrap", actors |-> GlaoActors, rate |-> GlaoRate,
         edges |-> edges, inputs |-> InputsOf(edges), nstep |-> NStep]

\* two actors feeding each other, B's output bootstrapped or not
Loop2(b) ==
    LET edges == { Ch("A", "B", "a2b", FALSE), Ch("B", "A", "b2a", b) }
    IN  [name |-> IF b THEN "loop2-bootstrap" ELSE "loop2",
         actors |-> {"A", "B"}, rate |-> [a \in {"A", "B"} |-> <<1, 1>>],
         edges |-> edges, inputs |-> InputsOf(edges), nstep |-> 2]

\* an input of A that no output feeds
Dangling ==
    LET edges == { Ch("timer", "A", "Tick", FALSE) }
    IN  [name |-> "dangling", actors |-> {"timer", "A"},
         rate |-> [a \in {"timer", "A"} |-> IF a = "timer" THEN <<0, 1>> ELSE <<1, 0>>],
         edges |-> edges,
         inputs |-> InputsOf(edges) \cup { [to |-> "A", uid |-> "x"] }, nstep |-> 2]

\* an input of A fed by two outputs
TwoWriters ==
    LET edges == { Ch("timer", "A", "x", FALSE), Ch("B", "A", "x", FALSE),
                   Ch("timer", "B", "Tick", FALSE) }
    IN  [name |-> "two-writers", actors |-> {"timer", "A", "B"},
         rate |-> [a \in {"timer", "A", "B"} |->
                     CASE a = "timer" -> <<0, 1>> [] a = "A" -> <<1, 0>> [] OTHER -> <<1, 1>>],
         edges |-> edges, inputs |-> InputsOf(edges), nstep |-> 2]

\* timer -> P -> sink with P : Actor<_, pin, pout>
Pair(pin, pout) ==
    LET edges == { Ch("timer", "P", "Tick", FALSE), Ch("P", "sink", "p", FALSE) }
    IN  [name |-> "pair", actors |-> {"timer", "P", "sink"},
         rate |-> [a \in {"timer", "P", "sink"} |->
                     CASE a = "timer" -> <<0, 1>> [] a = "P" -> <<pin, pout>>
                       [] OTHER -> <<1, 0>>],
         edges |-> edges, inputs |-> InputsOf(edges), nstep |-> NStep]

\* Clock -> A -> B with identity actors at rates 1:1, run for 3 ticks; the
\* output of B is collected by a sink
Chain ==
    LET actors == {"timer", "A", "B", "sink"}
        edges == { Ch("timer", "A", "Tick", FALSE), Ch("A", "B", "Tick", FALSE),
                   Ch("B", "sink", "Tick", FALSE) }
    IN  [name |-> "chain", actors |-> actors,
         rate |-> [a \in actors |->
                     CASE a = "timer" -> <<0, 1>> [] a = "sink" -> <<1, 0>>
                       [] OTHER -> <<1, 1>>],
         edges |-> edges, inputs |-> InputsOf(edges), nstep |-> 3]

Graphs ==
    { Glao(NStep - 1), Glao(NStep), Images, GlaoNoBoot,
      Loop2(FALSE), Loop2(TRUE), Dangling, TwoWriters, Chain }
    \cup { Pair(pin, pout) : pin \in 1..MaxRate, pout \in 1..MaxRate }

-----------------------------------------------------------------------------
(* Model::check *)

\* (a), (d): every input has exactly one producer
OneProducer(g) ==
    \A i \in g.inputs :
        Cardinality({ e \in g.edges : e.to = i.to /\ e.uid = i.uid }) = 1

\* (c): the rates of inputs and outputs in use are positive
RatesPositive(g) ==
    \A e \in g.edges : g.rate[e.from][2] >= 1 /\ g.rate[e.to][1] >= 1

\* actors of S that wait for no actor of S: all their inputs come from
\* outside S or through a bootstrapped output
Free(g, S) ==
    { a \in S : \A e \in g.edges : (e.to = a /\ e.from \in S) => e.boot }

RECURSIVE Unordered(_, _)
\* what is left of S once the actors that can be ordered are removed
Unordered(g, S) ==
    IF Free(g, S) = {} THEN S ELSE Unordered(g, S \ Free(g, S))

\* (b): with the bootstrapped outputs cut, the actors can be put in order
Schedulable(g) == Unordered(g, g.actors) = {}

CheckOk(g) == OneProducer(g) /\ RatesPositive(g) /\ Schedulable(g)

-----------------------------------------------------------------------------
(* Model::run and Model::wait *)

Empty == [tick |-> -1, val |-> -1]

HasIn(a) == G.rate[a][1] > 0
HasOut(a) == G.rate[a][2] > 0
DueRead(a, t) == HasIn(a) /\ t % G.rate[a][1] = 0
DueWrite(a, t) == HasOut(a) /\ t % G.rate[a][2] = 0
Boot(a) == \E e \in G.edges : e.from = a /\ e.boot
InEdges(a) == { e \in G.edges : e.to = a }

Running == phase = "running"

\* no Reconstructor is under test
RecOff ==
    /\ mat = <<>> /\ u = <<>> /\ y = <<>> /\ n_y = 0
    /\ rst = "off" /\ out = <<>> /\ uIn = <<>> /\ hist = <<>>

\* Model::new(vec_box![...])
Init ==
    /\ RecOff
    /\ IntOff
    /\ MainOff
    /\ CalOff
    /\ G \in Graphs
    /\ phase = "built"
    /\ now = 0
    /\ rdone = {} /\ wdone = {} /\ term = {}
    /\ slot = [e \in G.edges |-> Empty]
    /\ got = [e \in G.edges |-> Empty]
    /\ upd = [a \in G.actors |-> 0]
    /\ rd = [a \in G.actors |-> {}]
    /\ wr = [a \in G.actors |-> {}]
    /\ seen = [a \in G.actors |-> <<>>]

\* .check()?
Check ==
    /\ phase = "built"
    /\ phase' = IF CheckOk(G) THEN "ready" ELSE "failed"
    /\ UNCHANGED <<G, now, rdone, wdone, slot, got, upd, rd, wr, seen, term>>
    /\ UNCHANGED <<recVars, intVars, mainVars, calVars>>

\* .run() called whatever check() returned
RunUnchecked ==
    /\ phase \in {"built", "ready", "failed"}
    /\ phase' = "running"
    /\ UNCHANGED <<G, now, rdone, wdone, slot, got, upd, rd, wr, seen, term>>
    /\ UNCHANGED <<recVars, intVars, mainVars, calVars>>

\* .check()?.run(): run() is called on the Ok value of check()
Run ==
    /\ phase = "ready"
    /\ phase' = "running"
    /\ UNCHANGED <<G, now, rdone, wdone, slot, got, upd, rd, wr, seen, term>>
    /\ UNCHANGED <<recVars, intVars, mainVars, calVars>>

\* a reads without waiting for what its producers write
CanReadEarly(a) ==
    /\ Running /\ now < G.nstep
    /\ HasIn(a) /\ a \notin rdone
    /\ Boot(a) => a \in wdone

\* a reads (when due) and updates: it needs what its producers wrote this tick
CanRead(a) ==
    /\ Running /\ now < G.nstep
    /\ HasIn(a) /\ a \notin rdone
    /\ Boot(a) => a \in wdone
    /\ DueRead(a, now) =>
          \A e \in InEdges(a) : e.from \in wdone /\ slot[e] # Empty

TickOf(a) ==
    LET es == { e \in InEdges(a) : e.uid = "Tick" }
    IN  IF es = {} THEN <<>> ELSE <<slot[CHOOSE e \in es : TRUE].val>>

ReadCore(a) ==
    /\ CanRead(a)
    /\ rdone' = rdone \cup {a}
    /\ wdone' = IF HasOut(a) THEN wdone ELSE wdone \cup {a}
    /\ IF DueRead(a, now)
       THEN /\ got' = [e \in G.edges |-> IF e.to = a THEN slot[e] ELSE got[e]]
            /\ upd' = [upd EXCEPT ![a] = @ + 1]
            /\ rd' = [rd EXCEPT ![a] = @ \cup {now}]
            /\ seen' = [seen EXCEPT ![a] = @ \o TickOf(a)]
       ELSE UNCHANGED <<got, upd, rd, seen>>
    /\ UNCHANGED <<G, phase, now, slot, wr, term>>

\* the read/update step of an actor whose client is not modelled
ReadStep(a) == ReadCore(a) /\ UNCHANGED <<recVars, intVars, mainVars, calVars>>

\* a writes (when due): a bootstrapped actor writes before it reads
CanWrite(a) ==
    /\ Running /\ now < G.nstep
    /\ HasOut(a) /\ a \notin wdone
    /\ (HasIn(a) /\ ~Boot(a)) => a \in rdone

\* an identity actor: its output is the input it last read
Identity(a) == G.name = "chain" /\ a \in {"A", "B"}

LastIn(a) == got[CHOOSE e \in InEdges(a) : TRUE].val

\* every actor with inputs sends the number of its updates
PayloadCount(a) == [tick |-> now, val |-> IF HasIn(a) THEN upd[a] ELSE now]

\* the payload written: the tick for the timer, the input passed on for an
\* identity actor, the version (number of updates) of the state otherwise
Payload(a) ==
    [tick |-> now,
     val |-> IF ~HasIn(a) THEN now ELSE IF Identity(a) THEN LastIn(a) ELSE upd[a]]

WriteCore(a) ==
    /\ CanWrite(a)
    /\ wdone' = wdone \cup {a}
    /\ rdone' = IF HasIn(a) THEN rdone ELSE rdone \cup {a}
    /\ IF DueWrite(a, now)
       THEN /\ slot' = [e \in G.edges |-> IF e.from = a THEN Payload(a) ELSE slot[e]]
            /\ wr' = [wr EXCEPT ![a] = @ \cup {now}]
       ELSE UNCHANGED <<slot, wr>>
    /\ UNCHANGED <<G, phase, now, got, upd, rd, seen, term>>

\* the write step of an actor whose client is not modelled
WriteStep(a) == WriteCore(a) /\ UNCHANGED <<recVars, intVars, mainVars, calVars>>

\* every actor is through with the tick: the clock moves on
CanAdvance ==
    /\ Running /\ now < G.nstep
    /\ rdone = G.actors /\ wdone = G.actors

Advance ==
    /\ CanAdvance
    /\ now' = now + 1
    /\ rdone' = {} /\ wdone' = {}
    /\ UNCHANGED <<G, phase, slot, got, upd, rd, wr, seen, term>>
    /\ UNCHANGED <<recVars, intVars, mainVars, calVars>>

\* the ticks are consumed: the actors end
Stop(a) ==
    /\ Running /\ now = G.nstep
    /\ a \notin term
    /\ term' = term \cup {a}
    /\ UNCHANGED <<G, phase, now, rdone, wdone, slot, got, upd, rd, wr, seen>>
    /\ UNCHANGED <<recVars, intVars, mainVars, calVars>>

\* .wait() returns
WaitReturn ==
    /\ Running /\ term = G.actors
    /\ phase' = "done"
    /\ UNCHANGED <<G, now, rdone, wdone, slot, got, upd, rd, wr, seen, term>>
    /\ UNCHANGED <<recVars, intVars, mainVars, calVars>>

AllActors == UNION { g.actors : g \in Graphs }

Next ==
    \/ Check
    \/ Run
    \/ \E a \in AllActors : a \in G.actors /\ ReadStep(a)
    \/ \E a \in AllActors : a \in G.actors /\ WriteStep(a)
    \/ Advance
    \/ \E a \in AllActors : a \in G.actors /\ Stop(a)
    \/ WaitReturn

Spec == Init /\ [][Next]_vars

\* the runtime runs every task that can make a step
FairSpec == Spec /\ WF_vars(Next)

-----------------------------------------------------------------------------
(* The closed loop of main with the Reconstructor client in its actor: the   *)
(* reconstructor's read/update step calls read() then update(), its write    *)
(* step calls write()                                                        *)

LoopTicks == NStep

\* operators as the calibration builds them: 2 * nv columns per sub-matrix
\* and one row per mode, a multiple of the number of segments
LoopOps ==
    { [k \in 1..K |-> MatGen(NSeg, 2, k)] : K \in 1..MaxK }

InitLoop ==
    /\ IntOff
    /\ MainOff
    /\ CalOff
    /\ mat \in LoopOps
    /\ u = <<>>
    /\ n_y = mat[1].nrows
    /\ y = Zeros(n_y)
    /\ rst = "ok"
    /\ out = <<>>
    /\ uIn = <<>>
    /\ hist = <<>>
    /\ G = Glao(LoopTicks)
    /\ phase = "built"
    /\ now = 0
    /\ rdone = {} /\ wdone = {} /\ term = {}
    /\ slot = [e \in G.edges |-> Empty]
    /\ got = [e \in G.edges |-> Empty]
    /\ upd = [a \in G.actors |-> 0]
    /\ rd = [a \in G.actors |-> {}]
    /\ wr = [a \in G.actors |-> {}]
    /\ seen = [a \in G.actors |-> <<>>]

\* the sensor vector of ao_actor: one x and one y slope per valid lenslet
ClientRead ==
    /\ rst = "ok"
    /\ \E s \in Seeds :
          LET v == InputGen(TotalCols(mat), s)
              r == UpdateResult(mat, v, n_y)
          IN  /\ uIn' = v
              /\ u' = r.u
              /\ y' = IF r.ok THEN r.y ELSE y
              /\ rst' = IF r.ok THEN "ok" ELSE "update_panic"
    /\ hist' = hist \o <<"read", "update">>
    /\ UNCHANGED <<mat, n_y, out>>

ClientWrite ==
    /\ rst = "ok"
    /\ IF WriteOk(n_y)
       THEN out' = WriteOut(y, n_y) /\ rst' = "ok"
       ELSE out' = out /\ rst' = "write_panic"
    /\ hist' = Append(hist, "write")
    /\ UNCHANGED <<mat, u, y, n_y, uIn>>

LoopRead(a) ==
    /\ ReadCore(a)
    /\ IF a = "reconstructor" /\ DueRead(a, now) THEN ClientRead ELSE UNCHANGED recVars
    /\ UNCHANGED <<intVars, mainVars, calVars>>

LoopWrite(a) ==
    /\ WriteCore(a)
    /\ IF a = "reconstructor" /\ DueWrite(a, now) THEN ClientWrite ELSE UNCHANGED recVars
    /\ UNCHANGED <<intVars, mainVars, calVars>>

NextLoop ==
    \/ Check
    \/ Run
    \/ \E a \in GlaoActors : LoopRead(a)
    \/ \E a \in GlaoActors : LoopWrite(a)
    \/ Advance
    \/ \E a \in GlaoActors : Stop(a)
    \/ WaitReturn

\* a Reconstructor called directly, or driven by its actor in the closed loop
SpecRecLoop == (InitRec \/ InitLoop) /\ [][NextRec \/ NextLoop]_vars

-----------------------------------------------------------------------------
(* The Integrator client: y <- y + g * D, with g = GainNum / GainDen and     *)
(* y kept in units of 1 / GainDen                                            *)

\* a gain of 1
GainUnit == [num |-> 1, den |-> 1]

\* .gain(0.5)
Gain == [num |-> 1, den |-> 2]

GainNum == Gain.num
GainDen == Gain.den
NMode == 3       \* bound on the length n_mode of the command
MaxInc == 4      \* bound on the number of increments integrated

UnitInc(k) == [i \in 1..NMode |-> IF i = 1 THEN k ELSE 0]

\* increments offered to the integrator
Incs == { UnitInc(0), UnitInc(2), UnitInc(1), [i \in 1..NMode |-> i - 2] }

\* y + g * D, scaled by GainDen
IntegUpdate(yv, d) == [i \in 1..Len(yv) |-> yv[i] + GainNum * d[i]]

\* Integrator::new(n_mode): y = 0
InitInt ==
    /\ RecOff
    /\ EngOff
    /\ MainOff
    /\ CalOff
    /\ iy = [i \in 1..NMode |-> 0]
    /\ idelta = [i \in 1..NMode |-> 0]
    /\ iapplied = <<>>

\* read(D)
IntRead ==
    /\ Len(iapplied) < MaxInc
    /\ idelta' \in Incs
    /\ idelta' # idelta
    /\ UNCHANGED <<iy, iapplied>>
    /\ UNCHANGED <<recVars, engVars, mainVars, calVars>>

\* update()
IntUpdate ==
    /\ Len(iapplied) < MaxInc
    /\ iy' = IntegUpdate(iy, idelta)
    /\ iapplied' = Append(iapplied, idelta)
    /\ UNCHANGED idelta
    /\ UNCHANGED <<recVars, engVars, mainVars, calVars>>

NextInt == IntRead \/ IntUpdate

SpecInt == InitInt /\ [][NextInt]_vars


-----------------------------------------------------------------------------
(* main: the glao model is checked and run, the glao-images model is built   *)
(* and checked while glao runs, then main waits for glao and runs            *)
(* glao-images.  What an actor does in a step is left out: a step of an      *)
(* actor of a model drives the optical models both graphs share.             *)

MaxActs == 4     \* bound on the actor steps counted per model

InitMain ==
    /\ RecOff /\ EngOff /\ IntOff /\ CalOff
    /\ mpc = "glao_check"
    /\ m1 = "built" /\ m2 = "none"
    /\ acts1 = 0 /\ acts2 = 0

\* Model::new(...).name("glao").flowchart().check()?.run()
GlaoCheckRun ==
    /\ mpc = "glao_check"
    /\ \E ok \in BOOLEAN :
          IF ok THEN m1' = "running" /\ mpc' = "images_build"
          ELSE m1' = m1 /\ mpc' = "exit_err"
    /\ UNCHANGED <<m2, acts1, acts2>>
    /\ UNCHANGED <<recVars, engVars, intVars, calVars>>

\* Model::new(vec_box!(timer, on_axis, science, logs)).name("glao-images")
ImagesBuild ==
    /\ mpc = "images_build"
    /\ m2' = "built" /\ mpc' = "images_check"
    /\ UNCHANGED <<m1, acts1, acts2>>
    /\ UNCHANGED <<recVars, engVars, intVars, calVars>>

\* .check()?.flowchart()
ImagesCheck ==
    /\ mpc = "images_check"
    /\ \E ok \in BOOLEAN :
          IF ok THEN m2' = "ready" /\ mpc' = "glao_wait"
          ELSE m2' = m2 /\ mpc' = "exit_err"
    /\ UNCHANGED <<m1, acts1, acts2>>
    /\ UNCHANGED <<recVars, engVars, intVars, calVars>>

\* main goes on to run glao-images without waiting for glao
GlaoNoWait ==
    /\ mpc = "glao_wait"
    /\ mpc' = "images_run"
    /\ UNCHANGED <<m1, m2, acts1, acts2>>
    /\ UNCHANGED <<recVars, engVars, intVars, calVars>>

\* adaptive_optics_system.wait().await?
GlaoWait ==
    /\ mpc = "glao_wait"
    /\ m1 \in {"ok", "err"}
    /\ mpc' = IF m1 = "ok" THEN "images_run" ELSE "exit_err"
    /\ UNCHANGED <<m1, m2, acts1, acts2>>
    /\ UNCHANGED <<recVars, engVars, intVars, calVars>>

\* detector_readouts.run()
ImagesRun ==
    /\ mpc = "images_run"
    /\ m2' = "running" /\ mpc' = "images_wait"
    /\ UNCHANGED <<m1, acts1, acts2>>
    /\ UNCHANGED <<recVars, engVars, intVars, calVars>>

\* .wait().await?
ImagesWait ==
    /\ mpc = "images_wait"
    /\ m2 \in {"ok", "err"}
    /\ mpc' = IF m2 = "ok" THEN "exit_ok" ELSE "exit_err"
    /\ UNCHANGED <<m1, m2, acts1, acts2>>
    /\ UNCHANGED <<recVars, engVars, intVars, calVars>>

\* main has returned: the runtime drops the tasks still running
MainExit ==
    /\ mpc \in {"exit_ok", "exit_err"}
    /\ m1 = "running" \/ m2 = "running"
    /\ m1' = IF m1 = "running" THEN "dropped" ELSE m1
    /\ m2' = IF m2 = "running" THEN "dropped" ELSE m2
    /\ UNCHANGED <<mpc, acts1, acts2>>
    /\ UNCHANGED <<recVars, engVars, intVars, calVars>>

\* an actor of glao reads, updates or writes
GlaoActorStep ==
    /\ m1 = "running" /\ acts1 < MaxActs
    /\ acts1' = acts1 + 1
    /\ UNCHANGED <<mpc, m1, m2, acts2>>
    /\ UNCHANGED <<recVars, engVars, intVars, calVars>>

\* the run of glao completes, or an actor of glao fails
GlaoEnd ==
    /\ m1 = "running"
    /\ m1' \in {"ok", "err"}
    /\ UNCHANGED <<mpc, m2, acts1, acts2>>
    /\ UNCHANGED <<recVars, engVars, intVars, calVars>>

\* an actor of glao-images reads, updates or writes
ImagesActorStep ==
    /\ m2 = "running" /\ acts2 < MaxActs
    /\ acts2' = acts2 + 1
    /\ UNCHANGED <<mpc, m1, m2, acts1>>
    /\ UNCHANGED <<recVars, engVars, intVars, calVars>>

\* the run of glao-images completes, or an actor of glao-images fails
ImagesEnd ==
    /\ m2 = "running"
    /\ m2' \in {"ok", "err"}
    /\ UNCHANGED <<mpc, m1, acts1, acts2>>
    /\ UNCHANGED <<recVars, engVars, intVars, calVars>>

NextMain ==
    \/ GlaoCheckRun
    \/ ImagesBuild
    \/ ImagesCheck
    \/ GlaoWait
    \/ ImagesRun
    \/ ImagesWait
    \/ MainExit
    \/ GlaoActorStep
    \/ GlaoEnd
    \/ ImagesActorStep
    \/ ImagesEnd

SpecMain == InitMain /\ [][NextMain]_vars

-----------------------------------------------------------------------------
(* main: the pseudo-inverse of the poke matrix, computed sensor by sensor    *)
(* and saved to the cache file, then loaded from it by a later run           *)

MaxSens == 3     \* bound on the number of sensors
MaxNv == 2       \* bound on the valid lenslets of one sensor

\* rows of a pseudo-inverse: the modes, here one per segment
CalModes == NSeg

\* n_valid_lenslet
NvLists == UNION { [1..K -> 0..MaxNv] : K \in 1..MaxSens }

RECURSIVE SumSeq(_, _)
SumSeq(s, k) == IF k = 0 THEN 0 ELSE SumSeq(s, k - 1) + s[k]

\* n_nvl = n_valid_lenslet.iter().cloned().sum()
NNvl(l) == SumSeq(l, Len(l))

\* the poke matrix has the x slopes of all valid lenslets, then the y slopes
PokeRows(l) == 2 * NNvl(l)

\* row_iter().skip(s).take(n) over the rows 0 .. nrows - 1
SkipTake(nrows, s, n) ==
    LET len == IF s >= nrows THEN 0 ELSE Min(n, nrows - s)
    IN  [k \in 1..len |-> s + k - 1]

\* the second run of rows taken right after the first
RowsForAdjacent(nrows, i, nv, n_nvl) ==
    SkipTake(nrows, i, nv) \o SkipTake(nrows, i + nv, nv)

\* .skip(i).take(nv).chain(poke_mat.row_iter().skip(i + n_nvl).take(nv))
RowsFor(nrows, i, nv, n_nvl) ==
    SkipTake(nrows, i, nv) \o SkipTake(nrows, i + n_nvl, nv)

\* x.shape()
Shape(m) == <<m.nrows, m.ncols>>

\* x.as_slice(): the entries column after column
AsSlice(m) ==
    [k \in 1..(m.nrows * m.ncols) |->
        Entry(m, ((k - 1) % m.nrows) + 1, ((k - 1) \div m.nrows) + 1)]

\* .map(|x| (x.shape(), x.as_slice().to_vec()))
SaveData(ps) == [k \in 1..Len(ps) |-> [shape |-> Shape(ps[k]), data |-> AsSlice(ps[k])]]

\* bincode of Vec<((usize, usize), Vec<f64>)>: the length of the list, then
\* for each element n, m, the length of the data and the data
RECURSIVE Serialize(_, _)
Serialize(d, k) ==
    IF k > Len(d) THEN <<>>
    ELSE <<d[k].shape[1], d[k].shape[2], Len(d[k].data)>> \o d[k].data
         \o Serialize(d, k + 1)

SerializeInto(d) == <<Len(d)>> \o Serialize(d, 1)

RECURSIVE Deserialize(_, _, _)
Deserialize(f, pos, cnt) ==
    IF cnt = 0 THEN <<>>
    ELSE LET len == f[pos + 2]
         IN  <<[shape |-> <<f[pos], f[pos + 1]>>,
                data |-> SubSeq(f, pos + 3, pos + 2 + len)]>>
             \o Deserialize(f, pos + 3 + len, cnt - 1)

DeserializeFrom(f) == Deserialize(f, 2, f[1])

\* the slice read row after row
FromRowSlice(n, m, x) ==
    [nrows |-> n, ncols |-> m,
     data |-> [k \in 1..(n * m) |-> x[(((k - 1) % n) * m) + ((k - 1) \div n) + 1]]]

\* DMatrix::from_column_slice(n, m, x): panics unless x holds n * m values
FromColumnSlice(n, m, x) ==
    [nrows |-> n, ncols |-> m, data |-> [k \in 1..(n * m) |-> x[k]]]

InitCal ==
    /\ RecOff /\ EngOff /\ IntOff /\ MainOff
    /\ nvl \in NvLists
    /\ ci = 0
    /\ crows = <<>>
    /\ pinv = <<>>
    /\ cfile = <<>>
    /\ loaded = <<>>
    /\ cpc = "calibrating"

\* one turn of `for &nv in &n_valid_lenslet`: from_rows panics on no row;
\* the entries of the pseudo-inverse come from the calibration
CalSensor ==
    /\ cpc = "calibrating" /\ Len(crows) < Len(nvl)
    /\ LET nv == nvl[Len(crows) + 1]
           rows == RowsFor(PokeRows(nvl), ci, nv, NNvl(nvl))
       IN  IF rows = <<>>
           THEN cpc' = "panic" /\ UNCHANGED <<ci, crows, pinv>>
           ELSE /\ crows' = Append(crows, rows)
                /\ ci' = ci + nv
                /\ \E s \in Seeds : pinv' = Append(pinv, MatGen(CalModes, Len(rows), s))
                /\ cpc' = cpc
    /\ UNCHANGED <<nvl, cfile, loaded>>
    /\ UNCHANGED <<recVars, engVars, intVars, mainVars>>

\* bincode::serialize_into(File::create(calib_path)?, &data)?
CalSave ==
    /\ cpc = "calibrating" /\ Len(crows) = Len(nvl)
    /\ cfile' = SerializeInto(SaveData(pinv))
    /\ cpc' = "saved"
    /\ UNCHANGED <<nvl, ci, crows, pinv, loaded>>
    /\ UNCHANGED <<recVars, engVars, intVars, mainVars>>

\* a later run finds the file: deserialize_from, then from_column_slice
CalLoad ==
    /\ cpc = "saved"
    /\ LET d == DeserializeFrom(cfile)
       IN  IF \A k \in 1..Len(d) : Len(d[k].data) = d[k].shape[1] * d[k].shape[2]
           THEN /\ loaded' = [k \in 1..Len(d) |->
                                FromColumnSlice(d[k].shape[1], d[k].shape[2], d[k].data)]
                /\ cpc' = "loaded"
           ELSE loaded' = loaded /\ cpc' = "panic"
    /\ UNCHANGED <<nvl, ci, crows, pinv, cfile>>
    /\ UNCHANGED <<recVars, engVars, intVars, mainVars>>

NextCal == CalSensor \/ CalSave \/ CalLoad

SpecCal == InitCal /\ [][NextCal]_vars

-----------------------------------------------------------------------------
(* Properties of the graph run                                               *)

InRun == phase \in {"running", "done"}

\* some step of the run in progress can be taken
CanStep == CanAdvance \/ \E a \in G.actors : CanRead(a) \/ CanWrite(a)

NoBlock == (Running /\ now < G.nstep) => CanStep

\* C1: in the closed loop of main the integrator's bootstrapped zero command
\* is what the plant (ao_actor) reads on tick 0, written before the plant's
\* tick-0 update; the loop without the bootstrap fails check(); and a graph
\* that passed check() never blocks on its feedback cycle.
C1_BootstrapOrdering ==
    /\ G.name = "glao" => phase # "failed"
    /\ (G.name = "glao" /\ Running /\ now = 0 /\ "ao_actor" \in rdone) =>
          /\ "integrator" \in wdone
          /\ \A e \in G.edges :
                (e.from = "integrator" /\ e.to = "ao_actor") =>
                    got[e] = [tick |-> 0, val |-> 0]
    /\ G.name = "glao-no-bootstrap" => phase \in {"built", "failed"}
    /\ NoBlock

C1_Witness ==
    /\ G.name = "glao" /\ Running /\ now = 0
    /\ "ao_actor" \in rdone /\ "integrator" \notin rdone
    /\ upd["ao_actor"] = 1 /\ upd["integrator"] = 0

\* ticks below the run length on which actor a, of period p, has been invoked
Invoked(a, p, doneSet) ==
    { t \in 0..(G.nstep - 1) : t % p = 0 /\ (t < now \/ (t = now /\ a \in doneSet)) }

\* C2: an actor with rates (p_in, p_out) is invoked to read exactly on the
\* ticks t with t mod p_in = 0 and to write exactly on those with
\* t mod p_out = 0; in main: ao_actor (1, 10), reconstructor (10, 10),
\* integrator (10, 1).
C2_RateTicks ==
    InRun =>
      /\ \A a \in G.actors :
            /\ HasIn(a) => rd[a] = Invoked(a, G.rate[a][1], rdone)
            /\ HasOut(a) => wr[a] = Invoked(a, G.rate[a][2], wdone)
      /\ G.name = "glao" =>
            /\ rd["ao_actor"] = Invoked("ao_actor", 1, rdone)
            /\ wr["ao_actor"] = Invoked("ao_actor", AO_RATE, wdone)
            /\ rd["reconstructor"] = Invoked("reconstructor", AO_RATE, rdone)
            /\ wr["reconstructor"] = Invoked("reconstructor", AO_RATE, wdone)
            /\ rd["integrator"] = Invoked("integrator", AO_RATE, rdone)
            /\ wr["integrator"] = Invoked("integrator", 1, wdone)

C2_Witness ==
    /\ G.name = "glao" /\ phase = "done"
    /\ rd["integrator"] = {0, AO_RATE} /\ wr["ao_actor"] = {0, AO_RATE}
    /\ Cardinality(wr["integrator"]) = G.nstep

\* one step along an output that is not bootstrapped
PlainStep(g) == { <<e.from, e.to>> : e \in { d \in g.edges : ~d.boot } }

\* the steps of R followed by a step of R
Then(R) == { <<pq[1][1], pq[2][2]>> : pq \in { x \in R \X R : x[1][2] = x[2][1] } }

RECURSIVE Paths(_)
\* the pairs joined by a path of one or more steps of R
Paths(R) == IF Then(R) \subseteq R THEN R ELSE Paths(R \cup Then(R))

\* every cycle of the graph goes through a bootstrapped output
EveryCycleBootstrapped(g) ==
    \A a \in g.actors : <<a, a>> \notin Paths(PlainStep(g))

\* C3: check() succeeds iff every input has exactly one producer and every
\* cycle contains a bootstrapped actor; two actors feeding each other fail
\* check() without a bootstrap and pass it with one; both models of main pass.
C3_CheckIff ==
    phase \in {"failed", "ready", "running", "done"} =>
      /\ (phase # "failed") <=> (OneProducer(G) /\ EveryCycleBootstrapped(G))
      /\ G.name = "loop2" => phase = "failed"
      /\ G.name = "loop2-bootstrap" => phase # "failed"
      /\ G.name \in {"glao", "glao-images"} => phase # "failed"

C3_Witness == G.name = "loop2-bootstrap" /\ phase = "done" /\ upd["A"] = 2

\* C4: under fair scheduling the closed-loop run completes: every actor
\* terminates and wait() returns, and no state before completion has all
\* actors blocked.
C4_RunCompletes ==
    /\ []NoBlock
    /\ (G.name = "glao" /\ phase = "built") ~> (phase = "done" /\ term = G.actors)

C4_Witness ==
    /\ G.name = "glao" /\ phase = "done"
    /\ term = GlaoActors /\ now = G.nstep /\ G.nstep = NStep

Upto(n) == [i \in 1..n |-> i - 1]

\* C5: the timer of main, multiplexed to on_axis and ao_actor, hands the same
\* tick to both in one step and drops none: each sees 0, 1, 2, ... in order,
\* and tick t+1 is not emitted before both have accepted tick t.
C5_MultiplexedTicks ==
    (G.name = "glao" /\ InRun) =>
      /\ \A c \in {"on_axis", "ao_actor"} :
            /\ Len(seen[c]) = now + (IF c \in rdone THEN 1 ELSE 0)
            /\ seen[c] = Upto(Len(seen[c]))
      /\ \A e \in G.edges : \A d \in G.edges :
            (e.uid = "Tick" /\ d.uid = "Tick") =>
                /\ slot[e] = slot[d]
                /\ slot[e].tick <= Len(seen[d.to])
      /\ phase = "done" =>
            \A c \in {"on_axis", "ao_actor"} : seen[c] = Upto(G.nstep)

C5_Witness ==
    /\ G.name = "glao" /\ G.nstep = 10 /\ phase = "done"
    /\ seen["on_axis"] = <<0, 1, 2, 3, 4, 5, 6, 7, 8, 9>>
    /\ seen["ao_actor"] = <<0, 1, 2, 3, 4, 5, 6, 7, 8, 9>>

-----------------------------------------------------------------------------
(* Properties of the Reconstructor                                           *)

EndsWith(ops) ==
    /\ Len(hist) >= Len(ops)
    /\ SubSeq(hist, Len(hist) - Len(ops) + 1, Len(hist)) = ops

RECURSIVE RowTimes(_, _, _, _)
\* sum over the first j columns of row i of m times v, from the column-major data
RowTimes(m, i, v, j) ==
    IF j = 0 THEN 0
    ELSE RowTimes(m, i, v, j - 1) + m.data[(j - 1) * m.nrows + i] * v[j]

\* the matrix-vector product M * v
Product(m, v) == [i \in 1..m.nrows |-> RowTimes(m, i, v, m.ncols)]

SingleOperator == NewOk(mat) /\ Len(mat) = 1 /\ Len(uIn) = mat[1].ncols

Slice(v, off, n) == SubSeq(v, off + 1, off + n)

\* number of x values (half the columns) of the sub-units before sub-unit k
HalfBefore(ms, k) == SumCols(ms, k - 1) \div 2

RECURSIVE LayoutSum(_, _, _)
\* sum over the first k sub-units of M_k * (x_k ++ y_k), where v holds
\* x_1 .. x_K then y_1 .. y_K
LayoutSum(ms, v, k) ==
    IF k = 0 THEN Zeros(ms[1].nrows)
    ELSE LET n == ms[k].ncols \div 2
             xk == Slice(v, HalfBefore(ms, k), n)
             yk == Slice(v, (Len(v) \div 2) + HalfBefore(ms, k), n)
         IN  VecAdd(LayoutSum(ms, v, k - 1), Product(ms[k], xk \o yk))

LaidOut ==
    /\ NewOk(mat)
    /\ \A k \in 1..Len(mat) : mat[k].ncols % 2 = 0
    /\ Len(uIn) = TotalCols(mat)

\* C7: with sub-matrices M_1 .. M_K of 2 n_k columns and an input laid out as
\* x_1 .. x_K then y_1 .. y_K, update() sets the command vector to the sum of
\* the M_k * (x_k ++ y_k), accumulated from a zero vector.
C7_LayoutSum ==
    (LaidOut /\ EndsWith(<<"read", "update">>)) =>
      (rst = "ok" /\ y = LayoutSum(mat, uIn, Len(mat)))

C7_Witness ==
    /\ LaidOut /\ Len(mat) = 2 /\ mat[1].ncols = 2 /\ mat[2].ncols = 4
    /\ hist = <<"read", "update", "read", "update">>
    /\ rst = "ok" /\ y # Zeros(n_y)

\* out is n blocks of a zero followed by b values of yy, in order
Blocks(o, yy, n, b) ==
    /\ Len(o) = n * (b + 1)
    /\ \A s \in 0..(n - 1) :
          /\ o[s * (b + 1) + 1] = 0
          /\ \A i \in 1..b : o[s * (b + 1) + 1 + i] = yy[s * b + i]

\* C8 as stated: for every n_y, write() returns 7 blocks, each a zero followed
\* by n_y / 7 coefficients: n_y + 7 values in all.
C8_SevenBlocks ==
    EndsWith(<<"write">>) =>
      /\ rst = "ok"
      /\ Len(out) = n_y + NSeg
      /\ Blocks(out, y, NSeg, n_y \div NSeg)

\* C8 amended: the same, for every n_y that is a multiple of 7.
C8_SevenBlocksMultiple ==
    (EndsWith(<<"write">>) /\ n_y % NSeg = 0) =>
      /\ rst = "ok"
      /\ Len(out) = n_y + NSeg
      /\ Blocks(out, y, NSeg, n_y \div NSeg)

C8_Witness ==
    /\ EndsWith(<<"read", "update", "write">>) /\ rst = "ok"
    /\ n_y = 2 * NSeg /\ Len(out) = 2 * NSeg + NSeg
    /\ \E i \in 1..n_y : y[i] # 0

\* C9: once Reconstructor::new has succeeded, no update() fails because the
\* columns of the operator do not match the length of the vector read.
C9_NoRunTimeShapeFailure ==
    ~ ( /\ EndsWith(<<"read", "update">>)
        /\ Len(uIn) # TotalCols(mat)
        /\ rst = "update_panic" )

-----------------------------------------------------------------------------
(* Properties of the Integrator                                              *)

\* C10: from y = 0 with gain 0.5, the increment [2, 0, 0, ...] followed by
\* zero increments brings y to [1, 0, 0, ...] and leaves it there.
C10_Accumulates ==
    ( /\ Len(iapplied) >= 1
      /\ iapplied[1] = UnitInc(2)
      /\ \A k \in 2..Len(iapplied) : iapplied[k] = UnitInc(0) ) =>
        iy = [i \in 1..NMode |-> GainDen * UnitInc(1)[i]]

C10_Witness ==
    /\ Len(iapplied) = 3
    /\ iapplied[1] = UnitInc(2) /\ iapplied[2] = UnitInc(0) /\ iapplied[3] = UnitInc(0)
    /\ iy[1] = GainDen

-----------------------------------------------------------------------------
(* Properties of the rate conversion and of the ordering of a run            *)

\* the last tick on which actor a, which reads every tick, has read (-1: none)
LastRead(a) == IF a \in rdone THEN now ELSE now - 1

\* the updates the integrator made on ticks before t
UpdatesBefore(t) == Cardinality({ s \in rd["integrator"] : s < t })

LastDue(p, t) == t - (t % G.rate[p][2])

\* an actor that has read on the current tick read what each of its producers
\* wrote for this tick, after the producer's write step
ReadsAfterWrites ==
    Running =>
        \A e \in G.edges :
            (e.to \in rdone /\ DueRead(e.to, now)) =>
                /\ e.from \in wdone
                /\ got[e] = slot[e]
                /\ got[e].tick = LastDue(e.from, now)

\* the clock moves to tick t + 1 only when every actor is through with tick t
TickBarrier == now' # now => (now' = now + 1 /\ rdone = G.actors /\ wdone = G.actors)

\* the payloads read on a channel never go back in time
ReadsInOrder == \A e \in G.edges : got'[e].tick >= got[e].tick

\* C12: under every interleaving, within a tick each write happens before
\* the reads that depend on it; no actor begins tick t + 1 before every actor
\* (its transitive producers included) has completed tick t; and on a channel
\* no payload of a later tick is read before one of an earlier tick.
C12_TickOrdering ==
    /\ []ReadsAfterWrites
    /\ [][TickBarrier /\ ReadsInOrder]_vars

C12_Witness ==
    /\ G.name = "glao" /\ Running /\ now = AO_RATE
    /\ "reconstructor" \in rdone /\ "on_axis" \notin rdone
    /\ "integrator" \notin rdone
    /\ \E e \in G.edges :
          /\ e.from = "ao_actor" /\ e.to = "reconstructor"
          /\ got[e] = [tick |-> AO_RATE, val |-> AO_RATE + 1]

-----------------------------------------------------------------------------
(* Properties of the validation                                              *)

\* no tick was emitted and no actor has read, updated or written
NothingRan ==
    /\ now = 0 /\ rdone = {} /\ wdone = {} /\ term = {}
    /\ \A a \in G.actors : upd[a] = 0 /\ rd[a] = {} /\ wr[a] = {} /\ seen[a] = <<>>
    /\ \A e \in G.edges : slot[e] = Empty /\ got[e] = Empty

\* C13: a graph is validated before it is run and a failed validation
\* prevents the run: a model runs only from the state check() left on
\* success (for glao and glao-images as for any graph), and once check() has
\* failed the model stays failed, no tick is emitted and no actor reads,
\* updates or writes.
C13_CheckedBeforeRun ==
    /\ [](InRun => CheckOk(G))
    /\ [](phase \in {"built", "ready", "failed"} => NothingRan)
    /\ [][ /\ (phase' = "running" /\ phase # "running") => phase = "ready"
           /\ phase' = "ready" => (phase = "built" /\ CheckOk(G))
           /\ phase = "failed" => phase' = "failed" ]_vars

C13_Witness ==
    /\ G.name = "glao-no-bootstrap" /\ phase = "failed"
    /\ ~CheckOk(G) /\ NothingRan

-----------------------------------------------------------------------------
(* Properties of the channels                                                *)

\* every input of actor a is fed by exactly one output
FedOnce(g, a) ==
    /\ \A i \in g.inputs :
          i.to = a => Cardinality({ e \in g.edges : e.to = a /\ e.uid = i.uid }) = 1
    /\ Cardinality({ i \in g.inputs : i.to = a }) = Cardinality({ e \in g.edges : e.to = a })

\* a channel is written by its producer alone, in the producer's write step,
\* and only if it was not yet written on the current tick
OneWritePerTick ==
    \A e \in G.edges :
        slot'[e] # slot[e] =>
            /\ e.from \notin wdone /\ wdone' = wdone \cup {e.from}
            /\ slot[e].tick < now /\ slot'[e].tick = now

\* C14: in every state of a run every channel has exactly one producer and
\* is written at most once per tick; in the two graphs wired in main every
\* input of every actor, each typed input of logs and wavefront_logs
\* included, is fed by exactly one output.
C14_OneProducerOneWrite ==
    /\ [](InRun => OneProducer(G))
    /\ [](G.name \in {"glao", "glao-images"} => \A a \in G.actors : FedOnce(G, a))
    /\ [][OneWritePerTick]_vars

C14_Witness ==
    /\ G.name = "glao" /\ Running /\ now = 1
    /\ "logs" \in rdone /\ "wavefront_logs" \in rdone
    /\ Cardinality({ e \in G.edges : e.to = "logs" }) = 6
    /\ Cardinality({ e \in G.edges : e.to = "wavefront_logs" }) = 3
    /\ \A e \in G.edges :
          e.to \in {"logs", "wavefront_logs"} => got[e].tick = 1 /\ slot[e].tick = 1

-----------------------------------------------------------------------------
(* Properties of the identity chain                                          *)

-----------------------------------------------------------------------------
(* Properties of the Reconstructor's input buffer                            *)

\* the read and update calls of the history, writes left out
RECURSIVE NoWrites(_)
NoWrites(h) ==
    IF h = <<>> THEN <<>>
    ELSE IF h[1] = "write" THEN NoWrites(Tail(h)) ELSE <<h[1]>> \o NoWrites(Tail(h))

\* the last update() was not preceded by a read() since the update() before
UpdateWithoutRead ==
    LET h == NoWrites(hist)
    IN  Len(h) >= 3 /\ h[Len(h)] = "update" /\ h[Len(h) - 1] = "update"
        /\ h[Len(h) - 2] = "read"

\* the history is a repetition of read, update, write
InCycle(h) ==
    \A i \in 1..Len(h) :
        h[i] = (CASE i % 3 = 1 -> "read" [] i % 3 = 2 -> "update" [] OTHER -> "write")

InLoop == G.name = "glao" /\ rst # "off"

\* C16: update() consumes the pending input: after read() of a vector whose
\* length is the sum of the column counts and an update() that returned, u
\* is empty, and a second update() with no read() in between panics on the
\* drained buffer; in the closed loop, where the reconstructor reads and
\* writes every AO_RATE ticks, each update() follows exactly one read() of
\* the sensor vector written on the same tick, and none of them fails.
C16_UpdateDrainsInput ==
    /\ ( /\ Len(hist) >= 2 /\ hist[Len(hist)] = "update" /\ hist[Len(hist) - 1] = "read"
         /\ Len(uIn) = TotalCols(mat) /\ rst = "ok" ) => u = <<>>
    /\ (UpdateWithoutRead /\ Len(uIn) = TotalCols(mat)) => rst = "update_panic"
    /\ InLoop =>
          /\ rst = "ok" /\ InCycle(hist)
          /\ Cardinality({ i \in 1..Len(hist) : hist[i] = "read" }) = upd["reconstructor"]
          /\ Cardinality({ i \in 1..Len(hist) : hist[i] = "update" }) = upd["reconstructor"]
          /\ upd["reconstructor"] = Cardinality(rd["reconstructor"])
          /\ \A t \in rd["reconstructor"] : t % AO_RATE = 0
          /\ \A e \in G.edges :
                (e.to = "reconstructor" /\ got[e] # Empty) =>
                    /\ got[e].tick \in rd["reconstructor"]
                    /\ \A t \in rd["reconstructor"] : t <= got[e].tick
          /\ hist # <<>> => u = <<>>

C16_Witness ==
    /\ InLoop /\ Running /\ now = AO_RATE
    /\ hist = <<"read", "update", "write", "read", "update">>
    /\ u = <<>> /\ Len(uIn) = TotalCols(mat) /\ Len(mat) = 2
    /\ \E i \in 1..n_y : y[i] # 0

-----------------------------------------------------------------------------
(* Properties of main                                                        *)

\* C17: glao-images starts running only after glao has completed
\* successfully: no actor of glao-images makes a step while an actor of glao
\* may still run, so the optical models shared by the two graphs are never
\* driven by both; and if the run of glao fails, glao-images is never run.
C17_ImagesAfterGlao ==
    /\ [](~(m1 = "running" /\ m2 = "running"))
    /\ []((m2 \in {"running", "ok", "err"} \/ acts2 > 0) => m1 = "ok")
    /\ [](m1 \in {"err", "dropped", "built"} => (m2 \in {"none", "built", "ready"} /\ acts2 = 0))
    /\ [][ /\ acts2' # acts2 => (m1 = "ok" /\ m1' = "ok")
           /\ acts1' # acts1 => (m2 \in {"none", "built", "ready"} /\ acts2 = 0) ]_vars

C17_Witness ==
    /\ mpc = "images_wait" /\ m1 = "ok" /\ acts1 = MaxActs
    /\ m2 = "running" /\ acts2 = 1

-----------------------------------------------------------------------------
(* Properties of the calibration and of the operator cache                   *)

\* the indices s, s + 1, ..., s + n - 1
Range(s, n) == [k \in 1..n |-> s + k - 1]

\* the sensor vector whose entry at index i is i
IndexVec(n) == [k \in 1..n |-> k - 1]

RECURSIVE ExtractAll(_, _, _, _)
\* the slices s_xy that update() takes from uu, one per sub-matrix from k on
ExtractAll(ms, k, uu, n) ==
    IF k > Len(ms) THEN <<>>
    ELSE LET e == Extract(uu, n, ms[k].ncols \div 2)
         IN  IF ~e.ok THEN <<>>
             ELSE <<e.s_xy>> \o ExtractAll(ms, k + 1, e.u, e.n_u)

\* the indices of the sensor vector that update() multiplies by each
\* sub-matrix of the operator ms
SensorIndices(ms) ==
    ExtractAll(ms, 1, IndexVec(TotalCols(ms)), TotalCols(ms) \div 2)

\* C19: calibration and reconstruction partition the sensor vector alike:
\* the rows of the poke matrix selected for sensor k are [i_k, i_k + nv_k)
\* followed by [N + i_k, N + i_k + nv_k), with i_k the sum of the counts
\* before k and N the sum of all counts, and these are the indices, in the
\* same order, that update() extracts for the k-th pseudo-inverse.
C19_SamePartition ==
    /\ \A k \in 1..Len(crows) :
          crows[k] = Range(SumSeq(nvl, k - 1), nvl[k])
                       \o Range(NNvl(nvl) + SumSeq(nvl, k - 1), nvl[k])
    /\ cpc \in {"saved", "loaded"} =>
          /\ Len(pinv) = Len(nvl)
          /\ TotalCols(pinv) = PokeRows(nvl)
          /\ SensorIndices(pinv) = crows

C19_Witness ==
    /\ cpc = "saved" /\ nvl = <<1, 2, 1>>
    /\ crows = << <<0, 4>>, <<1, 2, 5, 6>>, <<3, 7>> >>
    /\ SensorIndices(pinv) = crows

\* C20: saving and reloading the operator is a round trip: the list loaded
\* from the cache has the length of the list saved, and each matrix the shape
\* and the entries of the matrix saved, so update() computes the same command
\* with it; loading what was saved never fails.
C20_CacheRoundTrip ==
    /\ cpc = "panic" => Len(crows) < Len(nvl)
    /\ cpc = "loaded" =>
          /\ Len(loaded) = Len(pinv)
          /\ \A k \in 1..Len(pinv) :
                /\ Shape(loaded[k]) = Shape(pinv[k])
                /\ \A i \in 1..pinv[k].nrows, j \in 1..pinv[k].ncols :
                      Entry(loaded[k], i, j) = Entry(pinv[k], i, j)
          /\ loaded = pinv
          /\ \A s \in Seeds :
                UpdateResult(loaded, InputGen(TotalCols(pinv), s), CalModes)
                  = UpdateResult(pinv, InputGen(TotalCols(pinv), s), CalModes)

C20_Witness ==
    /\ cpc = "loaded" /\ Len(pinv) = 2 /\ loaded = pinv
    /\ Shape(pinv[1]) = <<CalModes, 2>> /\ Shape(pinv[2]) = <<CalModes, 4>>
    /\ Len(cfile) = 1 + 3 + 2 * CalModes + 3 + 4 * CalModes
    /\ \E i \in 1..CalModes : Entry(pinv[2], i, 1) # Entry(pinv[2], i, 2)

====
